---- MODULE Spec2Model ----
(***************************************************************************)
(* The three analysis scripts of datathon-passos-magicos                   *)
(* (scripts/q1_ian_analysis.py, q2_ida_analysis.py, q3_ieg_analysis.py)    *)
(* as one state machine: a run of main() of one script over one input      *)
(* file.  Every stage of main() is one action; pc names the stage that     *)
(* runs next.  Numbers are integers; means, medians and quantiles are      *)
(* exact rationals [n, d] (d = 0 is not-a-number), so the float rounding   *)
(* of the real run is not modelled.  The indicators IDA, IEG and IPV are   *)
(* fixed-point numbers with one decimal more than the scripts keep when    *)
(* they round them (RoundStep).                                            *)
(***************************************************************************)
EXTENDS Integers, Sequences, FiniteSets, TLC

VARIABLES script, pc, fileExists, sheet, df, err, written,
          freq, desc, cuts, byCohort, byAge, byFase, byPedra,
          rates, defas_counts, tmp, rateByFase, corr_tbl, comp, grp, md

vars == <<script, pc, fileExists, sheet, df, err, written,
          freq, desc, cuts, byCohort, byAge, byFase, byPedra,
          rates, defas_counts, tmp, rateByFase, corr_tbl, comp, grp, md>>

\* Largest number of rows of the input table.
MaxRows == 5

Scripts == {"q1", "q2", "q3"}

----------------------------------------------------------------------------
\* Cells of the table.  A spreadsheet cell is a number, a text or empty.

Num(n) == [k |-> "num", n |-> n, s |-> <<>>]
Str(s) == [k |-> "str", n |-> 0, s |-> s]
NA == [k |-> "na", n |-> 0, s |-> <<>>]

isna(c) == c.k = "na"
notna(c) == c.k # "na"

\* Characters in code-point order.
Alphabet == <<"-", "0", "1", "2", "3", "4", "5", "6", "7", "8", "9",
              "A", "Q", "T", "a", "e", "i", "m", "o", "p", "r", "s",
              "t", "u", "x", "z">>

CharCode(c) == CHOOSE i \in 1..Len(Alphabet) : Alphabet[i] = c

Digits == {"0", "1", "2", "3", "4", "5", "6", "7", "8", "9"}

DigitVal(c) == CharCode(c) - 2

RECURSIVE DigitsVal(_)
DigitsVal(s) ==
    IF s = <<>> THEN 0
    ELSE 10 * DigitsVal(SubSeq(s, 1, Len(s) - 1)) + DigitVal(s[Len(s)])

AllDigits(s) == s # <<>> /\ \A i \in 1..Len(s) : s[i] \in Digits

\* The text forms pd.to_numeric parses, restricted to signed integers.
IsNumeric(s) ==
    IF s # <<>> /\ s[1] = "-" THEN AllDigits(Tail(s)) ELSE AllDigits(s)

ParseNumeric(s) ==
    IF s[1] = "-" THEN 0 - DigitsVal(Tail(s)) ELSE DigitsVal(s)

\* Variant: errors="ignore", a text that does not parse is left as it is.
to_numeric_ignore(c) ==
    IF c.k = "str" /\ IsNumeric(c.s) THEN Num(ParseNumeric(c.s)) ELSE c

\* pd.to_numeric(..., errors="coerce") on one cell.
to_numeric(c) ==
    IF c.k = "num" THEN c
    ELSE IF c.k = "str" /\ IsNumeric(c.s) THEN Num(ParseNumeric(c.s))
    ELSE NA

----------------------------------------------------------------------------
\* Rationals; d = 0 is not-a-number.

Rat(n, d) == [n |-> n, d |-> d]
NaN == Rat(0, 0)
IsNaN(r) == r.d = 0
RatEq(a, b) == a.d # 0 /\ b.d # 0 /\ a.n * b.d = b.n * a.d
RatLe(a, b) == a.d # 0 /\ b.d # 0 /\ a.n * b.d <= b.n * a.d
RatLt(a, b) == a.d # 0 /\ b.d # 0 /\ a.n * b.d < b.n * a.d
\* Same value, not-a-number equal to itself (for comparing tables).
RatSame(a, b) == IF a.d = 0 \/ b.d = 0 THEN a.d = b.d ELSE RatEq(a, b)

RECURSIVE SeqSum(_)
SeqSum(s) == IF s = <<>> THEN 0 ELSE Head(s) + SeqSum(Tail(s))

Range(s) == {s[i] : i \in 1..Len(s)}

\* Insert x into the ascending sequence s.
RECURSIVE Insert(_, _)
Insert(x, s) ==
    IF s = <<>> THEN <<x>>
    ELSE IF x <= Head(s) THEN <<x>> \o s
    ELSE <<Head(s)>> \o Insert(x, Tail(s))

RECURSIVE SortInts(_)
SortInts(s) == IF s = <<>> THEN <<>> ELSE Insert(Head(s), SortInts(Tail(s)))

\* Variant: the values are taken in the order of the rows, not sorted.
Quantile_unsorted(vals, q20) ==
    LET x == vals
        n == Len(x)
        pos == (n - 1) * q20
        lo == pos \div 20
        fr == pos % 20
    IN IF n = 0 THEN NaN
       ELSE IF fr = 0 THEN Rat(20 * x[lo + 1], 20)
       ELSE Rat(20 * x[lo + 1] + fr * (x[lo + 2] - x[lo + 1]), 20)

\* Series.quantile / np.quantile with linear interpolation between order
\* statistics; q20 is the quantile in twentieths (P25 is 5).
Quantile(vals, q20) ==
    LET x == SortInts(vals)
        n == Len(x)
        pos == (n - 1) * q20
        lo == pos \div 20
        fr == pos % 20
    IN IF n = 0 THEN NaN
       ELSE IF fr = 0 THEN Rat(20 * x[lo + 1], 20)
       ELSE Rat(20 * x[lo + 1] + fr * (x[lo + 2] - x[lo + 1]), 20)

Mean(vals) == IF vals = <<>> THEN NaN ELSE Rat(SeqSum(vals), Len(vals))
Median(vals) == Quantile(vals, 10)

\* round(1) of num/den*100, in tenths of a percent, ties to even.
RoundPct(num, den) ==
    IF den = 0 THEN NaN
    ELSE LET t == 1000 * num
             q == t \div den
             r == t % den
         IN IF 2 * r < den THEN Rat(q, 10)
            ELSE IF 2 * r > den THEN Rat(q + 1, 10)
            ELSE IF q % 2 = 0 THEN Rat(q, 10) ELSE Rat(q + 1, 10)

----------------------------------------------------------------------------
\* Configuration of the three scripts.

DATA_PATH == "data/raw/BASE_DE_DADOS_PEDE_2024_DATATHON.xlsx"

\* The primary indicator of each script.
Indicator == [q1 |-> "IAN", q2 |-> "IDA", q3 |-> "IEG"]

NumericCandidates ==
    [q1 |-> <<"IAN", "Defas", "Ano ingresso", "Idade 22", "Fase", "INDE 22">>,
     q2 |-> <<"IDA", "Ano ingresso", "Idade 22", "Fase", "INDE 22", "IAN",
              "IEG", "IAA", "IPS", "IPP", "IPV", "Defas">>,
     q3 |-> <<"IEG", "IDA", "IPV", "IAN", "IAA", "IPS", "IPP", "Defas",
              "Ano ingresso", "Idade 22", "Fase", "INDE 22">>]

required_cols ==
    [q1 |-> <<"IAN", "Defas", "Ano ingresso", "Idade 22", "Fase", "Pedra 22">>,
     q2 |-> <<"IDA", "Ano ingresso", "Idade 22", "Fase", "Pedra 22">>,
     q3 |-> <<"IEG", "IDA", "IPV", "Ano ingresso", "Idade 22", "Fase",
              "Pedra 22">>]

\* Variant: the classification and its rate table come before every grouped
\* table, and the association analysis after the last of them.
Stages_classifier_first ==
    [q1 |-> <<"check", "read", "coerce", "validate", "overview", "dist",
              "freq", "describe", "rates", "cohort", "age", "fase", "pedra",
              "rateFase", "readme">>,
     q2 |-> <<"check", "read", "coerce", "validate", "overview", "dist",
              "freq", "describe", "rates", "cohort", "age", "pedra", "fase",
              "rateFase", "readme">>,
     q3 |-> <<"check", "read", "coerce", "validate", "overview", "dist",
              "freq", "describe", "rates", "cohort", "age", "fase", "pedra",
              "corr", "scatter", "comp", "boxes", "rateFase", "readme">>]

\* Stages of main() in source order.
Stages ==
    [q1 |-> <<"check", "read", "coerce", "validate", "overview", "dist",
              "freq", "describe", "cohort", "age", "rates", "fase", "pedra",
              "rateFase", "readme">>,
     q2 |-> <<"check", "read", "coerce", "validate", "overview", "dist",
              "freq", "describe", "cohort", "age", "pedra", "rates", "fase",
              "rateFase", "readme">>,
     q3 |-> <<"check", "read", "coerce", "validate", "overview", "dist",
              "freq", "describe", "cohort", "age", "rates", "corr", "scatter",
              "comp", "boxes", "fase", "pedra", "rateFase", "readme">>]

StageIndex(sc, st) == CHOOSE i \in 1..Len(Stages[sc]) : Stages[sc][i] = st

NextStage(sc, st) ==
    LET i == StageIndex(sc, st)
    IN IF i = Len(Stages[sc]) THEN "done" ELSE Stages[sc][i + 1]

\* Has stage st of the running script finished?
Passed(st) ==
    /\ st \in Range(Stages[script])
    /\ \/ pc = "done"
       \/ /\ pc \in Range(Stages[script])
          /\ StageIndex(script, pc) > StageIndex(script, st)

----------------------------------------------------------------------------
\* Input tables.

AllCols == <<"IAN", "IDA", "IEG", "IPV", "Defas", "Ano ingresso", "Idade 22",
             "Fase", "Pedra 22", "INDE 22">>

\* Tier labels of the column Pedra 22.
Ametista == Str(<<"A", "m", "e", "t", "i", "s", "t", "a">>)
Quartzo == Str(<<"Q", "u", "a", "r", "t", "z", "o">>)
Topazio == Str(<<"T", "o", "p", "a", "z", "i", "o">>)

Row(ian, ida, ieg, ipv, defas, ano, idade, fase, pedra, inde) ==
    ("IAN" :> ian) @@ ("IDA" :> ida) @@ ("IEG" :> ieg) @@ ("IPV" :> ipv)
    @@ ("Defas" :> defas) @@ ("Ano ingresso" :> ano) @@ ("Idade 22" :> idade)
    @@ ("Fase" :> fase) @@ ("Pedra 22" :> pedra) @@ ("INDE 22" :> inde)

\* The rows an input table is made of: plain numbers, an empty indicator,
\* texts that parse and texts that do not, empty group keys.  The numbers of
\* IDA, IEG and IPV are in units of one decimal more than the scripts keep
\* when they round the column (see RoundStep): 1e-5 for IDA and IPV, 1e-7
\* for IEG.
RowPool ==
    << Row(Num(1), Num(10), Num(10), Num(30), Num(0), Num(1), Num(2), Num(1),
           Quartzo, Num(5)),
       Row(Num(2), Num(20), Num(20), Num(20), Num(-1), Num(2), Num(1), Num(2),
           Ametista, Num(6)),
       Row(Num(3), Num(44), Num(30), Num(10), Num(-3), Num(1), Num(1), Num(1),
           Ametista, NA),
       Row(NA, NA, NA, Num(14), NA, Num(2), Num(2), Num(1), Quartzo, Num(7)),
       Row(Str(<<"x">>), Str(<<"1", "x">>), Str(<<>>), Str(<<"2">>),
           Str(<<"-", "2">>), Str(<<"1">>), Str(<<"a">>), Str(<<"2">>), NA,
           Str(<<"x">>)),
       Row(Num(2), Num(20), Num(44), NA, Num(-2), NA, Num(3), NA, Topazio,
           Num(5)) >>

\* Sequences of pool indices in ascending order, of length n: the tables
\* up to the order of their rows, which no output of the scripts depends on.
RECURSIVE RowChoices(_)
RowChoices(n) ==
    IF n = 0 THEN {<<>>}
    ELSE UNION {{Append(s, i) :
                    i \in (IF s = <<>> THEN 1 ELSE s[Len(s)])..Len(RowPool)} :
                s \in RowChoices(n - 1)}

\* Columns that the file may lack.
OptionalAbsent == {"INDE 22", "IPV", "Fase"}

Table(absent, choice) ==
    LET present == SelectSeq(AllCols, LAMBDA c : c \notin absent)
    IN [cols |-> present,
        rows |-> [i \in 1..Len(choice) |->
                    [c \in Range(present) |-> RowPool[choice[i]][c]]]]

NoTable == [cols |-> <<>>, rows |-> <<>>]

NoErr == [kind |-> "none", path |-> "", missing |-> <<>>, available |-> <<>>]

\* if scat.shape[0] >= 10
ScatterMin == 10

\* Tables of ScatterMin - 1 or ScatterMin rows, every column there, made of
\* the three rows with IEG, IDA and IPV all present and the row without IEG.
ScatterSheets ==
    {Table({}, ch) :
        ch \in {c \in RowChoices(ScatterMin - 1) \cup RowChoices(ScatterMin) :
                   Range(c) \subseteq 1..4}}

Sheets ==
    {Table(a, ch) : a \in SUBSET OptionalAbsent,
                    ch \in UNION {RowChoices(n) : n \in 0..MaxRows}}

----------------------------------------------------------------------------
\* Series and frames.

Column(t, c) == [i \in 1..Len(t.rows) |-> t.rows[i][c]]

\* Series.dropna(), as the numbers left.
dropna(series) ==
    LET kept == SelectSeq(series, notna)
    IN [i \in 1..Len(kept) |-> kept[i].n]

\* df[c] = pd.to_numeric(df[c], errors="coerce")
CoerceColumn(t, c) ==
    [t EXCEPT !.rows = [i \in 1..Len(t.rows) |->
                          [t.rows[i] EXCEPT ![c] = to_numeric(@)]]]

RECURSIVE _safe_to_numeric(_, _)
_safe_to_numeric(t, cols) ==
    IF cols = <<>> THEN t
    ELSE _safe_to_numeric(
             IF Head(cols) \in Range(t.cols) THEN CoerceColumn(t, Head(cols))
             ELSE t,
             Tail(cols))

\* Variant: only the first absent column is reported.
MissingColumns_first(t, required) ==
    LET m == SelectSeq(required, LAMBDA c : c \notin Range(t.cols))
    IN IF m = <<>> THEN m ELSE <<m[1]>>

\* missing = [c for c in required_cols if c not in df.columns]
MissingColumns(t, required) ==
    SelectSeq(required, LAMBDA c : c \notin Range(t.cols))

----------------------------------------------------------------------------
\* Files each stage writes, in the order it writes them.

StageFiles ==
    [q1 |-> [overview |-> <<"overview.csv">>,
             dist |-> <<"01_hist_ian.png", "02_boxplot_ian.png">>,
             freq |-> <<"freq_ian.csv">>,
             describe |-> <<"descritivos_ian.csv">>,
             cohort |-> <<"ian_por_coorte.csv", "03_ian_por_coorte.png">>,
             age |-> <<"ian_por_idade.csv", "04_ian_por_idade.png">>,
             rates |-> <<"taxas_defasagem.csv", "05_taxa_defasagem.png",
                         "distribuicao_defas.csv",
                         "06_distribuicao_defas.png">>,
             fase |-> <<"ian_por_fase.csv", "07_ian_por_fase.png">>,
             pedra |-> <<"ian_por_pedra.csv", "08_ian_por_pedra.png">>,
             rateFase |-> <<"taxa_defas_moderada_por_fase.csv",
                            "09_defas_moderada_por_fase.png">>,
             readme |-> <<"README_q1.md">>],
     q2 |-> [overview |-> <<"overview.csv">>,
             dist |-> <<"01_hist_ida.png", "02_boxplot_ida.png">>,
             freq |-> <<"freq_ida_por_faixa.csv">>,
             describe |-> <<"descritivos_ida.csv">>,
             cohort |-> <<"ida_por_coorte.csv", "03_ida_por_coorte.png">>,
             age |-> <<"ida_por_idade.csv", "04_ida_por_idade.png">>,
             pedra |-> <<"ida_por_pedra.csv", "05_ida_por_pedra.png">>,
             rates |-> <<"taxa_baixo_desempenho.csv",
                         "06_taxa_baixo_desempenho.png">>,
             fase |-> <<"ida_por_fase.csv", "07_ida_por_fase.png">>,
             rateFase |-> <<"taxa_baixo_desempenho_por_fase.csv",
                            "08_taxa_baixo_desempenho_por_fase.png">>,
             readme |-> <<"README_q2.md">>],
     q3 |-> [overview |-> <<"overview.csv">>,
             dist |-> <<"01_hist_ieg.png", "02_boxplot_ieg.png">>,
             freq |-> <<"freq_ieg_por_faixa.csv">>,
             describe |-> <<"descritivos_ieg.csv">>,
             cohort |-> <<"ieg_por_coorte.csv", "03_ieg_por_coorte.png">>,
             age |-> <<"ieg_por_idade.csv", "04_ieg_por_idade.png">>,
             rates |-> <<"taxa_baixo_alto_engajamento.csv",
                         "05_taxa_baixo_alto_engajamento.png">>,
             corr |-> <<"correlacoes_ieg_ida_ipv.csv">>,
             scatter |-> <<"06_scatter_ieg_vs_ida.png",
                           "07_scatter_ieg_vs_ipv.png">>,
             comp |-> <<"comparacao_alto_vs_baixo_engajamento.csv">>,
             boxes |-> <<"08_box_ida_baixo_vs_alto_ieg.png",
                         "09_box_ipv_baixo_vs_alto_ieg.png">>,
             fase |-> <<"ieg_por_fase.csv", "10_ieg_por_fase.png">>,
             pedra |-> <<"ieg_por_pedra.csv", "11_ieg_por_pedra.png">>,
             rateFase |-> <<"taxa_baixo_engajamento_por_fase.csv",
                            "12_taxa_baixo_engajamento_por_fase.png">>,
             readme |-> <<"README_q3.md">>]]

----------------------------------------------------------------------------
\* Grouping and sorting.

RECURSIVE TextLess(_, _)
TextLess(a, b) ==
    IF a = <<>> THEN b # <<>>
    ELSE IF b = <<>> THEN FALSE
    ELSE IF CharCode(Head(a)) # CharCode(Head(b))
         THEN CharCode(Head(a)) < CharCode(Head(b))
    ELSE TextLess(Tail(a), Tail(b))

\* Order of group keys: numbers by value, texts by code point.
LessCell(a, b) ==
    IF a.k = "num" /\ b.k = "num" THEN a.n < b.n
    ELSE IF a.k = "str" /\ b.k = "str" THEN TextLess(a.s, b.s)
    ELSE a.k = "num" /\ b.k = "str"

RECURSIVE SortKeys(_)
SortKeys(S) ==
    IF S = {} THEN <<>>
    ELSE LET m == CHOOSE x \in S : \A y \in S \ {x} : LessCell(x, y)
         IN <<m>> \o SortKeys(S \ {m})

\* groupby(key): the distinct keys, empty keys dropped, in key order.
GroupKeys(t, key) ==
    SortKeys({t.rows[i][key] : i \in {j \in 1..Len(t.rows) :
                                         notna(t.rows[j][key])}})

\* The present values of column col in the group of key value k.
GroupValues(t, key, k, col) ==
    dropna(Column([t EXCEPT !.rows =
                      SelectSeq(t.rows, LAMBDA r : r[key] = k)], col))

\* Variant: "size" instead of "count", rows with a missing value included.
agg_size(t, key, col) ==
    LET ks == GroupKeys(t, key)
    IN [j \in 1..Len(ks) |->
          LET v == GroupValues(t, key, ks[j], col)
          IN [key |-> ks[j],
              count |-> Cardinality({i \in 1..Len(t.rows) :
                                      t.rows[i][key] = ks[j]}),
              mean |-> Mean(v), median |-> Median(v)]]

\* df.groupby(key)[col].agg(["count", "mean", "median"]).reset_index()
agg(t, key, col) ==
    LET ks == GroupKeys(t, key)
    IN [j \in 1..Len(ks) |->
          LET v == GroupValues(t, key, ks[j], col)
          IN [key |-> ks[j], count |-> Len(v), mean |-> Mean(v),
              median |-> Median(v)]]

\* Does row a sort strictly before row b?  Not-a-number means sort last.
Before(a, b, by) ==
    IF by = "key" THEN LessCell(a.key, b.key)
    ELSE IF IsNaN(a.mean) THEN FALSE
    ELSE IF IsNaN(b.mean) THEN TRUE
    ELSE RatLt(a.mean, b.mean)

RECURSIVE InsertRow(_, _, _)
InsertRow(x, s, by) ==
    IF s = <<>> THEN <<x>>
    ELSE IF Before(x, Head(s), by) THEN <<x>> \o s
    ELSE <<Head(s)>> \o InsertRow(x, Tail(s), by)

\* Variant: the table is left in the order groupby gives it.
sort_values_skipped(tbl, by) == tbl

\* DataFrame.sort_values(by): ascending, ties in their incoming order.
RECURSIVE sort_values(_, _)
sort_values(tbl, by) ==
    IF tbl = <<>> THEN <<>>
    ELSE InsertRow(tbl[Len(tbl)], sort_values(SubSeq(tbl, 1, Len(tbl) - 1), by),
                   by)

\* The integers of S in ascending order.
RECURSIVE SortSet(_)
SortSet(S) ==
    IF S = {} THEN <<>>
    ELSE LET m == CHOOSE x \in S : \A y \in S : x <= y
         IN <<m>> \o SortSet(S \ {m})

\* Series.value_counts().sort_index() of the present values.
value_counts(vals) ==
    LET ks == SortSet(Range(vals))
    IN [j \in 1..Len(ks) |->
          [value |-> ks[j],
           qtd |-> Cardinality({i \in 1..Len(vals) : vals[i] = ks[j]})]]

\* Comparisons of a cell with a cutoff; a missing cell compares false.
CellLe(c, cut) == c.k = "num" /\ RatLe(Rat(c.n, 1), cut)
CellGe(c, cut) == c.k = "num" /\ RatLe(cut, Rat(c.n, 1))

\* (condition).astype(int)
Flag(b) == Num(IF b THEN 1 ELSE 0)

\* frame[name] = values
WithColumn(t, name, values) ==
    [cols |-> Append(t.cols, name),
     rows |-> [i \in 1..Len(t.rows) |-> t.rows[i] @@ (name :> values[i])]]

\* Number of rows of t whose 0/1 column c is 1: frame[c].sum()
FlagSum(t, c) == Cardinality({i \in 1..Len(t.rows) : t.rows[i][c].n = 1})

\* Number of present cells of column c: frame[c].notna().sum()
\* Variant: every row counts, present or not.
NotNaCount_all(t, c) == Len(t.rows)

NotNaCount(t, c) == Cardinality({i \in 1..Len(t.rows) : notna(t.rows[i][c])})

\* Variant: only the cells that were empty in the file count as missing.
IsNaCount_raw(t, c) ==
    Cardinality({i \in 1..Len(sheet.rows) : isna(sheet.rows[i][c])})

\* Number of missing cells of column c: frame[c].isna().sum()
IsNaCount(t, c) == Cardinality({i \in 1..Len(t.rows) : isna(t.rows[i][c])})

RatSub(a, b) ==
    IF IsNaN(a) \/ IsNaN(b) THEN NaN ELSE Rat(a.n * b.d - b.n * a.d, a.d * b.d)

----------------------------------------------------------------------------
\* Binned frequency table of Q2 and Q3.  Bin edges are in twentieths of the
\* unit of the indicator's numbers.

BinQuantiles == {0, 2, 5, 10, 15, 18, 20}

\* The last decimal that np.round(bins, d), round(p, d) and {x:.4f} keep,
\* in units of the column's numbers.
RoundStep == 10

\* np.round(e, d) of an edge in twentieths, ties to even.
np_round(e) ==
    LET g == 20 * RoundStep
        q == e \div g
        r == e % g
    IN IF 2 * r < g THEN q * g
       ELSE IF 2 * r > g THEN (q + 1) * g
       ELSE IF q % 2 = 0 THEN q * g ELSE (q + 1) * g

\* np.unique(np.round(np.quantile(vals, [0, .1, .25, .5, .75, .9, 1]), d))
QuantileEdges(vals) ==
    SortSet({np_round(Quantile(vals, q).n) : q \in BinQuantiles})

\* np.linspace(min, max, 6)
linspace(lo, hi) == [i \in 1..6 |-> 20 * lo + 4 * (i - 1) * (hi - lo)]

BinEdges(vals) ==
    LET e == QuantileEdges(vals)
        x == SortInts(vals)
    IN IF Len(e) < 4 THEN linspace(x[1], x[Len(x)]) ELSE e

\* pd.cut raises ValueError unless the edges are unique.
EdgesUnique(bins) == \A i \in 1..(Len(bins) - 1) : bins[i] < bins[i + 1]

\* pd.cut(vals, bins, include_lowest=True).value_counts().sort_index()
InBin(v, bins, j) ==
    \/ bins[j] < 20 * v /\ 20 * v <= bins[j + 1]
    \/ j = 1 /\ 20 * v = bins[1]

cut_counts(vals, bins) ==
    [j \in 1..(Len(bins) - 1) |->
       [lo |-> Rat(bins[j], 20), hi |-> Rat(bins[j + 1], 20),
        qtd |-> Cardinality({i \in 1..Len(vals) : InBin(vals[i], bins, j)})]]

----------------------------------------------------------------------------
\* The run.

\* No stage has run yet.
Fresh ==
    /\ pc = "check"
    /\ df = NoTable
    /\ err = NoErr
    /\ written = <<>>
    /\ freq = <<>>
    /\ desc = <<>>
    /\ cuts = <<>>
    /\ byCohort = <<>>
    /\ byAge = <<>>
    /\ byFase = <<>>
    /\ byPedra = <<>>
    /\ rates = <<>>
    /\ defas_counts = <<>>
    /\ tmp = NoTable
    /\ rateByFase = <<>>
    /\ corr_tbl = <<>>
    /\ comp = <<>>
    /\ grp = NoTable
    /\ md = <<>>

Init ==
    /\ script \in Scripts
    /\ fileExists \in BOOLEAN
    /\ sheet \in (IF fileExists THEN Sheets ELSE {NoTable})
    /\ Fresh

\* Runs of Q3 over tables around the size at which the scatter plots are
\* drawn.
InitScatter ==
    /\ script = "q3"
    /\ fileExists = TRUE
    /\ sheet \in ScatterSheets
    /\ Fresh

Running(st) == pc = st /\ err.kind = "none"

Advance == pc' = NextStage(script, pc)

\* Variant: the existence check is left out.
CheckInput_unchecked ==
    /\ Running("check")
    /\ Advance
    /\ UNCHANGED <<script, fileExists, sheet, df, err, written, freq, desc,
                   cuts, byCohort, byAge, byFase, byPedra, rates, defas_counts,
                   tmp, rateByFase, corr_tbl, comp, grp, md>>

\* if not DATA_PATH.exists(): raise FileNotFoundError(...)
CheckInput ==
    /\ Running("check")
    /\ IF fileExists
       THEN Advance /\ UNCHANGED err
       ELSE /\ err' = [NoErr EXCEPT !.kind = "FileNotFoundError",
                                    !.path = DATA_PATH]
            /\ UNCHANGED pc
    /\ UNCHANGED <<script, fileExists, sheet, df, written, freq, desc, cuts,
                   byCohort, byAge, byFase, byPedra, rates, defas_counts, tmp,
                   rateByFase, corr_tbl, comp, grp, md>>

\* df = pd.read_excel(DATA_PATH)
ReadExcel ==
    /\ Running("read")
    /\ df' = sheet
    /\ Advance
    /\ UNCHANGED <<script, fileExists, sheet, err, written, freq, desc, cuts,
                   byCohort, byAge, byFase, byPedra, rates, defas_counts, tmp,
                   rateByFase, corr_tbl, comp, grp, md>>

\* df = _safe_to_numeric(df, [...])
SafeToNumeric ==
    /\ Running("coerce")
    /\ df' = _safe_to_numeric(df, NumericCandidates[script])
    /\ Advance
    /\ UNCHANGED <<script, fileExists, sheet, err, written, freq, desc, cuts,
                   byCohort, byAge, byFase, byPedra, rates, defas_counts, tmp,
                   rateByFase, corr_tbl, comp, grp, md>>

\* if missing: raise ValueError(f"Colunas esperadas ausentes: {missing}. ...")
CheckRequired ==
    /\ Running("validate")
    /\ LET missing == MissingColumns(df, required_cols[script])
       IN IF missing # <<>>
          THEN /\ err' = [NoErr EXCEPT !.kind = "ValueError",
                                       !.missing = missing,
                                       !.available = df.cols]
               /\ UNCHANGED pc
          ELSE Advance /\ UNCHANGED err
    /\ UNCHANGED <<script, fileExists, sheet, df, written, freq, desc, cuts,
                   byCohort, byAge, byFase, byPedra, rates, defas_counts, tmp,
                   rateByFase, corr_tbl, comp, grp, md>>

\* A stage that cannot fail: it runs, writes its files, and main() goes on.
Stage(st) ==
    /\ Running(st)
    /\ Advance
    /\ written' = written \o StageFiles[script][st]
    /\ UNCHANGED <<script, fileExists, sheet, df, err>>

\* The present values of the primary indicator: df[ind].dropna()
Present == dropna(Column(df, Indicator[script]))

\* overview.to_csv(...): one row per column (its content is not modelled).
Overview ==
    /\ Stage("overview")
    /\ UNCHANGED <<freq, desc, cuts, byCohort, byAge, byFase, byPedra, rates,
                   defas_counts, tmp, rateByFase, corr_tbl, comp, grp, md>>

\* Histogram and box plot of the present values.
Distribution ==
    /\ Stage("dist")
    /\ UNCHANGED <<freq, desc, cuts, byCohort, byAge, byFase, byPedra, rates,
                   defas_counts, tmp, rateByFase, corr_tbl, comp, grp, md>>

\* Variant: percentages over the present values only.
freq_ian_present ==
    LET c == value_counts(Present)
    IN [j \in 1..Len(c) |->
          [value |-> c[j].value, qtd |-> c[j].qtd,
           pct |-> RoundPct(c[j].qtd, Len(Present))]]

\* Q1: frequency per value, percentages over len(df).
freq_ian ==
    LET c == value_counts(Present)
    IN [j \in 1..Len(c) |->
          [value |-> c[j].value, qtd |-> c[j].qtd,
           pct |-> RoundPct(c[j].qtd, Len(df.rows))]]

\* Q2, Q3: frequency per bin; Q2 divides by len(df), Q3 by the present count.
freq_bins ==
    LET c == cut_counts(Present, BinEdges(Present))
        base == IF script = "q2" THEN Len(df.rows)
                ELSE NotNaCount(df, Indicator[script])
    IN [j \in 1..Len(c) |->
          [lo |-> c[j].lo, hi |-> c[j].hi, qtd |-> c[j].qtd,
           pct |-> RoundPct(c[j].qtd, base)]]

\* np.quantile of no values raises IndexError or yields not-a-number
\* (depending on the numpy release), and then pd.cut raises ValueError.
Frequency ==
    /\ Running("freq")
    /\ IF script = "q1"
       THEN /\ freq' = freq_ian
            /\ Advance
            /\ written' = written \o StageFiles[script]["freq"]
            /\ UNCHANGED err
       ELSE IF Present = <<>>
       THEN /\ \E kind \in {"IndexError", "ValueError"} :
                  err' = [NoErr EXCEPT !.kind = kind]
            /\ UNCHANGED <<pc, written, freq>>
       ELSE IF ~EdgesUnique(BinEdges(Present))
       THEN /\ err' = [NoErr EXCEPT !.kind = "ValueError"]
            /\ UNCHANGED <<pc, written, freq>>
       ELSE /\ freq' = freq_bins
            /\ Advance
            /\ written' = written \o StageFiles[script]["freq"]
            /\ UNCHANGED err
    /\ UNCHANGED <<script, fileExists, sheet, df, desc, cuts, byCohort, byAge,
                   byFase, byPedra, rates, defas_counts, tmp, rateByFase,
                   corr_tbl, comp, grp, md>>

\* ind.describe(percentiles=[.1, .25, .5, .75, .9]) and the "missing" row
\* (the standard deviation is not modelled).
describe ==
    [count |-> Len(Present),
     mean |-> Mean(Present),
     min |-> Quantile(Present, 0),
     p10 |-> Quantile(Present, 2),
     p25 |-> Quantile(Present, 5),
     p50 |-> Quantile(Present, 10),
     p75 |-> Quantile(Present, 15),
     p90 |-> Quantile(Present, 18),
     max |-> Quantile(Present, 20),
     missing |-> IsNaCount(df, Indicator[script])]

\* p10 = float(ind.quantile(0.10)) ... (Q2: p10, p25, p50; Q3: also p75)
Cutoffs ==
    IF script = "q1" THEN <<>>
    ELSE IF script = "q2"
    THEN [p10 |-> Quantile(Present, 2), p25 |-> Quantile(Present, 5),
          p50 |-> Quantile(Present, 10)]
    ELSE [p10 |-> Quantile(Present, 2), p25 |-> Quantile(Present, 5),
          p50 |-> Quantile(Present, 10), p75 |-> Quantile(Present, 15)]

Describe ==
    /\ Stage("describe")
    /\ desc' = describe
    /\ cuts' = Cutoffs
    /\ UNCHANGED <<freq, byCohort, byAge, byFase, byPedra, rates,
                   defas_counts, tmp, rateByFase, corr_tbl, comp, grp, md>>

\* df.groupby("Ano ingresso")[ind].agg([...]).reset_index().sort_values(...)
ByCohort ==
    /\ Stage("cohort")
    /\ byCohort' = sort_values(agg(df, "Ano ingresso", Indicator[script]), "key")
    /\ UNCHANGED <<freq, desc, cuts, byAge, byFase, byPedra, rates,
                   defas_counts, tmp, rateByFase, corr_tbl, comp, grp, md>>

ByAge ==
    /\ Stage("age")
    /\ byAge' = sort_values(agg(df, "Idade 22", Indicator[script]), "key")
    /\ UNCHANGED <<freq, desc, cuts, byCohort, byFase, byPedra, rates,
                   defas_counts, tmp, rateByFase, corr_tbl, comp, grp, md>>

ByFase ==
    /\ Stage("fase")
    /\ byFase' = sort_values(agg(df, "Fase", Indicator[script]), "key")
    /\ UNCHANGED <<freq, desc, cuts, byCohort, byAge, byPedra, rates,
                   defas_counts, tmp, rateByFase, corr_tbl, comp, grp, md>>

ByPedra ==
    /\ Stage("pedra")
    /\ byPedra' = sort_values(agg(df, "Pedra 22", Indicator[script]), "mean")
    /\ UNCHANGED <<freq, desc, cuts, byCohort, byAge, byFase, rates,
                   defas_counts, tmp, rateByFase, corr_tbl, comp, grp, md>>

----------------------------------------------------------------------------
\* The overall rate tables.

\* Q1: defas = df["Defas"].dropna(); the four groups; % over len(defas).
rates_q1 ==
    LET defas == dropna(Column(df, "Defas"))
        n(P(_)) == Cardinality({i \in 1..Len(defas) : P(defas[i])})
        row(g, q) == [grupo |-> g, qtd |-> q, pct |-> RoundPct(q, Len(defas))]
    IN << row("Sem defasagem (Defas=0)", n(LAMBDA v : v = 0)),
          row("Defasagem leve (Defas=-1)", n(LAMBDA v : v = -1)),
          row("Defasagem moderada+ (Defas<=-2)", n(LAMBDA v : v <= -2)),
          row("Defasagem severa (Defas<=-3)", n(LAMBDA v : v <= -3)) >>

\* Q2: tmp = df.copy() with the flags baixo_desempenho_p25 and critico_p10.
tmp_q2 ==
    LET ida == Column(df, "IDA")
    IN WithColumn(
           WithColumn(df, "baixo_desempenho_p25",
                      [i \in 1..Len(ida) |-> Flag(CellLe(ida[i], cuts.p25))]),
           "critico_p10",
           [i \in 1..Len(ida) |-> Flag(CellLe(ida[i], cuts.p10))])

rate_low(t) ==
    LET base == NotNaCount(t, "IDA")
        row(c, k, q) ==
            [criterio |-> c, corte |-> k, qtd |-> q, pct |-> RoundPct(q, base)]
    IN << row("Baixo desempenho (IDA <= P25)", cuts.p25,
              FlagSum(t, "baixo_desempenho_p25")),
          row("Critico (IDA <= P10)", cuts.p10, FlagSum(t, "critico_p10")) >>

\* Q3: tmp = df.copy() with the flags baixo_ieg_p25 and alto_ieg_p75.
tmp_q3 ==
    LET ieg == Column(df, "IEG")
    IN WithColumn(
           WithColumn(df, "baixo_ieg_p25",
                      [i \in 1..Len(ieg) |-> Flag(CellLe(ieg[i], cuts.p25))]),
           "alto_ieg_p75",
           [i \in 1..Len(ieg) |-> Flag(CellGe(ieg[i], cuts.p75))])

rate_ieg(t) ==
    LET base_n == NotNaCount(t, "IEG")
        row(c, k, q) ==
            [criterio |-> c, corte |-> k, qtd |-> q,
             pct |-> RoundPct(q, base_n)]
    IN << row("Baixo engajamento (IEG <= P25)", cuts.p25,
              FlagSum(t, "baixo_ieg_p25")),
          row("Alto engajamento (IEG >= P75)", cuts.p75,
              FlagSum(t, "alto_ieg_p75")) >>

\* Variant: tmp is the loaded table itself, not a copy of it.
Rates_inplace ==
    /\ Running("rates")
    /\ Advance
    /\ written' = written \o StageFiles[script]["rates"]
    /\ IF script = "q1"
       THEN /\ rates' = rates_q1
            /\ defas_counts' = value_counts(dropna(Column(df, "Defas")))
            /\ UNCHANGED <<tmp, df>>
       ELSE IF script = "q2"
       THEN /\ tmp' = tmp_q2
            /\ df' = tmp_q2
            /\ rates' = rate_low(tmp_q2)
            /\ UNCHANGED defas_counts
       ELSE /\ tmp' = tmp_q3
            /\ df' = tmp_q3
            /\ rates' = rate_ieg(tmp_q3)
            /\ UNCHANGED defas_counts
    /\ UNCHANGED <<script, fileExists, sheet, err, freq, desc, cuts, byCohort,
                   byAge, byFase, byPedra, rateByFase, corr_tbl, comp, grp,
                   md>>

Rates ==
    /\ Stage("rates")
    /\ IF script = "q1"
       THEN /\ rates' = rates_q1
            /\ defas_counts' = value_counts(dropna(Column(df, "Defas")))
            /\ UNCHANGED tmp
       ELSE IF script = "q2"
       THEN /\ tmp' = tmp_q2
            /\ rates' = rate_low(tmp_q2)
            /\ UNCHANGED defas_counts
       ELSE /\ tmp' = tmp_q3
            /\ rates' = rate_ieg(tmp_q3)
            /\ UNCHANGED defas_counts
    /\ UNCHANGED <<freq, desc, cuts, byCohort, byAge, byFase, byPedra,
                   rateByFase, corr_tbl, comp, grp, md>>

----------------------------------------------------------------------------
\* Q3: association with IDA and IPV.

\* x = pd.concat([a, b], axis=1).dropna(): the pairs of the rows where both
\* columns are present.
CompletePairs(t, a, b) ==
    LET r == SelectSeq(t.rows, LAMBDA w : notna(w[a]) /\ notna(w[b]))
    IN [i \in 1..Len(r) |-> <<r[i][a].n, r[i][b].n>>]

\* A coefficient c / sqrt(vx * vy), or not-a-number.
Coef(c, vx, vy) == [nan |-> FALSE, c |-> c, vx |-> vx, vy |-> vy]
NoCoef == [nan |-> TRUE, c |-> 0, vx |-> 0, vy |-> 0]

\* Variant: the covariance is divided by the variance of the first column.
pearson_slope(p) ==
    LET n == Len(p)
        sx == SeqSum([i \in 1..n |-> p[i][1]])
        sy == SeqSum([i \in 1..n |-> p[i][2]])
        sxy == SeqSum([i \in 1..n |-> p[i][1] * p[i][2]])
        sxx == SeqSum([i \in 1..n |-> p[i][1] * p[i][1]])
        vx == n * sxx - sx * sx
    IN IF vx = 0 THEN NoCoef ELSE Coef(n * sxy - sx * sy, vx, vx)

\* x.corr(method="pearson").iloc[0, 1]: covariance over the root of the
\* product of the variances (all three scaled by n * n); not-a-number when
\* a column is constant.
pearson(p) ==
    LET n == Len(p)
        sx == SeqSum([i \in 1..n |-> p[i][1]])
        sy == SeqSum([i \in 1..n |-> p[i][2]])
        sxy == SeqSum([i \in 1..n |-> p[i][1] * p[i][2]])
        sxx == SeqSum([i \in 1..n |-> p[i][1] * p[i][1]])
        syy == SeqSum([i \in 1..n |-> p[i][2] * p[i][2]])
        vx == n * sxx - sx * sx
        vy == n * syy - sy * sy
    IN IF vx = 0 \/ vy = 0 THEN NoCoef
       ELSE Coef(n * sxy - sx * sy, vx, vy)

\* Twice the rank of v among the ascending values s, ties sharing the
\* average of their positions.
rank2(v, s) ==
    LET at == {i \in 1..Len(s) : s[i] = v}
    IN (CHOOSE i \in at : \A j \in at : i <= j)
       + (CHOOSE i \in at : \A j \in at : i >= j)

\* x.corr(method="spearman").iloc[0, 1]: Pearson's coefficient of the ranks.
spearman(p) ==
    LET xs == SortInts([i \in 1..Len(p) |-> p[i][1]])
        ys == SortInts([i \in 1..Len(p) |-> p[i][2]])
    IN pearson([i \in 1..Len(p) |->
                  <<rank2(p[i][1], xs), rank2(p[i][2], ys)>>])

\* Variant: the coefficient is computed however few rows are complete.
_corr_safe_unguarded(t, a, b, method) ==
    LET x == CompletePairs(t, a, b)
    IN IF method = "pearson" THEN pearson(x) ELSE spearman(x)

\* if x.shape[0] < 5: return float("nan")
\* return float(x.corr(method=method).iloc[0, 1])
_corr_safe(t, a, b, method) ==
    LET x == CompletePairs(t, a, b)
    IN IF Len(x) < 5 THEN NoCoef
       ELSE IF method = "pearson" THEN pearson(x) ELSE spearman(x)

\* The two pairs of columns main() passes to _corr_safe.
pairs == << <<"IEG", "IDA">>, <<"IEG", "IPV">> >>

Correlations ==
    /\ Stage("corr")
    /\ corr_tbl' =
          [j \in 1..Len(pairs) |->
             [a |-> pairs[j][1], b |-> pairs[j][2],
              pearson |-> _corr_safe(tmp, pairs[j][1], pairs[j][2], "pearson"),
              spearman |->
                  _corr_safe(tmp, pairs[j][1], pairs[j][2], "spearman")]]
    /\ UNCHANGED <<freq, desc, cuts, byCohort, byAge, byFase, byPedra, rates,
                   defas_counts, tmp, rateByFase, comp, grp, md>>

\* scat = tmp[["IEG", "IDA", "IPV"]].dropna(); the two scatter plots are
\* drawn only when scat has at least 10 rows.
ScatterRows ==
    Cardinality({i \in 1..Len(tmp.rows) :
                    /\ notna(tmp.rows[i]["IEG"])
                    /\ notna(tmp.rows[i]["IDA"])
                    /\ notna(tmp.rows[i]["IPV"])})

Scatter ==
    /\ Running("scatter")
    /\ Advance
    /\ written' = IF ScatterRows >= ScatterMin
                  THEN written \o StageFiles[script]["scatter"]
                  ELSE written
    /\ UNCHANGED <<script, fileExists, sheet, df, err, freq, desc, cuts,
                   byCohort, byAge, byFase, byPedra, rates, defas_counts, tmp,
                   rateByFase, corr_tbl, comp, grp, md>>

\* low = tmp[tmp["baixo_ieg_p25"] == 1]; high = tmp[tmp["alto_ieg_p75"] == 1]
Subframe(t, flag) ==
    [t EXCEPT !.rows = SelectSeq(t.rows, LAMBDA r : r[flag].n = 1)]

\* Variant: the deltas are the sizes of the differences.
comparison_abs ==
    LET low == Subframe(tmp, "baixo_ieg_p25")
        high == Subframe(tmp, "alto_ieg_p75")
        row(g, f) ==
            [grupo |-> g, n |-> NotNaCount(f, "IEG"),
             IDA_medio |-> Mean(dropna(Column(f, "IDA"))),
             IPV_medio |-> Mean(dropna(Column(f, "IPV")))]
        rows == << row("Baixo engajamento (<=P25)", low),
                   row("Alto engajamento (>=P75)", high) >>
        abs(x) == IF x.n < 0 THEN Rat(-x.n, x.d) ELSE x
    IN [rows |-> rows,
        delta_IDA |-> abs(RatSub(rows[2].IDA_medio, rows[1].IDA_medio)),
        delta_IPV |-> abs(RatSub(rows[2].IPV_medio, rows[1].IPV_medio))]

comparison ==
    LET low == Subframe(tmp, "baixo_ieg_p25")
        high == Subframe(tmp, "alto_ieg_p75")
        row(g, f) ==
            [grupo |-> g, n |-> NotNaCount(f, "IEG"),
             IDA_medio |-> Mean(dropna(Column(f, "IDA"))),
             IPV_medio |-> Mean(dropna(Column(f, "IPV")))]
        rows == << row("Baixo engajamento (<=P25)", low),
                   row("Alto engajamento (>=P75)", high) >>
    IN [rows |-> rows,
        delta_IDA |-> RatSub(rows[2].IDA_medio, rows[1].IDA_medio),
        delta_IPV |-> RatSub(rows[2].IPV_medio, rows[1].IPV_medio)]

Comparison ==
    /\ Stage("comp")
    /\ comp' = comparison
    /\ UNCHANGED <<freq, desc, cuts, byCohort, byAge, byFase, byPedra, rates,
                   defas_counts, tmp, rateByFase, corr_tbl, grp, md>>

\* The text of a label, kept whole.
Label(name) == Str(<<name>>)

\* grp["grupo_engajamento"] = np.where(IEG <= p25, "Baixo (<=P25)",
\*                            np.where(IEG >= p75, "Alto (>=P75)",
\*                                     "Intermediario"))
grupo_engajamento(c) ==
    IF CellLe(c, cuts.p25) THEN Label("Baixo (<=P25)")
    ELSE IF CellGe(c, cuts.p75) THEN Label("Alto (>=P75)")
    ELSE Label("Intermediario")

GroupBoxplots ==
    /\ Stage("boxes")
    /\ grp' = WithColumn(tmp, "grupo_engajamento",
                         [i \in 1..Len(tmp.rows) |->
                            grupo_engajamento(tmp.rows[i]["IEG"])])
    /\ UNCHANGED <<freq, desc, cuts, byCohort, byAge, byFase, byPedra, rates,
                   defas_counts, tmp, rateByFase, corr_tbl, comp, md>>

----------------------------------------------------------------------------
\* The rate per phase.

\* Q1: tmp = df.copy(); tmp["defas_moderada_mais"] = (Defas <= -2).astype(int)
tmp_q1 ==
    LET defas == Column(df, "Defas")
    IN WithColumn(df, "defas_moderada_mais",
                  [i \in 1..Len(defas) |->
                     Flag(defas[i].k = "num" /\ defas[i].n <= -2)])

\* The 0/1 column whose mean per phase each script reports.
PhaseFlag ==
    [q1 |-> "defas_moderada_mais", q2 |-> "baixo_desempenho_p25",
     q3 |-> "baixo_ieg_p25"]

\* t.groupby("Fase")[flag].mean().reset_index(), and its "%" column.
rate_by_fase(t, flag) ==
    LET ks == GroupKeys(t, "Fase")
    IN [j \in 1..Len(ks) |->
          LET v == GroupValues(t, "Fase", ks[j], flag)
          IN [key |-> ks[j], taxa |-> Mean(v),
              pct |-> RoundPct(SeqSum(v), Len(v))]]

RateByFase ==
    /\ Stage("rateFase")
    /\ tmp' = IF script = "q1" THEN tmp_q1 ELSE tmp
    /\ rateByFase' = rate_by_fase(IF script = "q1" THEN tmp_q1 ELSE tmp,
                                  PhaseFlag[script])
    /\ UNCHANGED <<freq, desc, cuts, byCohort, byAge, byFase, byPedra, rates,
                   defas_counts, corr_tbl, comp, grp, md>>

----------------------------------------------------------------------------
\* The summary document.

\* num / den to the nearest integer, ties to even (num >= 0, den > 0).
RoundHalfEven(num, den) ==
    LET q == num \div den
        r == num % den
    IN IF 2 * r < den THEN q
       ELSE IF 2 * r > den THEN q + 1
       ELSE IF q % 2 = 0 THEN q ELSE q + 1

\* f"{x:.4f}": "nan", or the sign of x and its magnitude to four decimals
\* (steps of RoundStep); a negative x that rounds to zero prints -0.0000.
Format4(x) ==
    IF IsNaN(x) THEN [nan |-> TRUE, neg |-> FALSE, steps |-> 0]
    ELSE [nan |-> FALSE, neg |-> x.n < 0,
          steps |-> RoundHalfEven(IF x.n < 0 THEN -x.n ELSE x.n,
                                  x.d * RoundStep)]

\* round(p, d) of a cutoff.
round(p) == IF IsNaN(p) THEN NaN ELSE Rat(np_round(p.n), 20)

\* The figures the f-string md carries: the rounded cutoffs, the two rates
\* and, in Q3, the two deltas.  (The coefficients of Q3, also printed with
\* :.4f, are kept in corr_tbl only.)
readme_md ==
    IF script = "q1"
    THEN [cortes |-> <<>>, taxas |-> <<rates[3].pct, rates[4].pct>>,
          deltas |-> <<>>]
    ELSE IF script = "q2"
    THEN [cortes |-> <<round(cuts.p10), round(cuts.p25), round(cuts.p50)>>,
          taxas |-> <<rates[1].pct, rates[2].pct>>, deltas |-> <<>>]
    ELSE [cortes |-> <<round(cuts.p10), round(cuts.p25), round(cuts.p50),
                       round(cuts.p75)>>,
          taxas |-> <<rates[1].pct, rates[2].pct>>,
          deltas |-> <<Format4(comp.delta_IDA), Format4(comp.delta_IPV)>>]

\* (OUT_DIR / "README_qN.md").write_text(md)
WriteReadme ==
    /\ Stage("readme")
    /\ md' = readme_md
    /\ UNCHANGED <<freq, desc, cuts, byCohort, byAge, byFase, byPedra, rates,
                   defas_counts, tmp, rateByFase, corr_tbl, comp, grp>>

Next ==
    \/ CheckInput
    \/ ReadExcel
    \/ SafeToNumeric
    \/ CheckRequired
    \/ Overview
    \/ Distribution
    \/ Frequency
    \/ Describe
    \/ ByCohort
    \/ ByAge
    \/ Rates
    \/ Correlations
    \/ Scatter
    \/ Comparison
    \/ GroupBoxplots
    \/ ByFase
    \/ ByPedra
    \/ RateByFase
    \/ WriteReadme

Spec == Init /\ [][Next]_vars

SpecScatter == InitScatter /\ [][Next]_vars

----------------------------------------------------------------------------
\* Properties.

Rows == 1..Len(df.rows)

\* The required columns the input file lacks.
AbsentRequired ==
    {c \in Range(required_cols[script]) : c \notin Range(sheet.cols)}

\* C1: when a required column is absent from the loaded table, the run
\* never gets past the column check and writes no file, and the error it
\* stops with is a ValueError that lists exactly the absent required
\* columns and all the columns of the table.
C1_MissingColumnError ==
    /\ (fileExists /\ AbsentRequired # {}) =>
          /\ pc \in {"check", "read", "coerce", "validate"}
          /\ written = <<>>
          /\ err.kind \in {"none", "ValueError"}
    /\ err.kind = "ValueError" /\ pc = "validate" =>
          /\ AbsentRequired # {}
          /\ Range(err.missing) = AbsentRequired
          /\ Len(err.missing) = Cardinality(AbsentRequired)
          /\ err.available = sheet.cols
          /\ written = <<>>

C1_Witness ==
    /\ err.kind = "ValueError"
    /\ pc = "validate"
    /\ Len(err.missing) = 2
    /\ Len(err.available) > 0

\* C2: when the input file does not exist the run stops at the existence
\* check with a FileNotFoundError that names DATA_PATH; nothing is read,
\* coerced, validated or written.
C2_MissingInputError ==
    /\ ~fileExists =>
          /\ pc = "check"
          /\ df = NoTable
          /\ written = <<>>
          /\ err.kind \in {"none", "FileNotFoundError"}
    /\ err.kind = "FileNotFoundError" =>
          /\ ~fileExists
          /\ err.path = DATA_PATH

C2_Witness == err.kind = "FileNotFoundError" /\ pc = "check" /\ written = <<>>

\* The candidate columns of the running script that the table has.
PresentCandidates ==
    {c \in Range(NumericCandidates[script]) : c \in Range(df.cols)}

\* C3: coercion never stops the run; after it every present candidate
\* column holds numbers and missing markers only, a number being kept, a
\* text that does not parse becoming missing; and the loader stops only
\* for a missing file or an absent required column, never for an absent
\* candidate column.
C3_CoercionNeverFails ==
    /\ pc = "coerce" => err.kind = "none"
    /\ Passed("coerce") =>
          \A c \in PresentCandidates : \A i \in Rows :
             LET raw == sheet.rows[i][c]
                 cur == df.rows[i][c]
             IN /\ cur.k \in {"num", "na"}
                /\ raw.k = "num" => cur = raw
                /\ raw.k = "na" => cur = NA
                /\ raw.k = "str" /\ ~IsNumeric(raw.s) => cur = NA
                /\ raw.k = "str" /\ IsNumeric(raw.s) => cur.k = "num"
    /\ (pc \in {"check", "read", "coerce", "validate"} /\ err.kind # "none") =>
          \/ pc = "check" /\ ~fileExists
          \/ pc = "validate" /\ AbsentRequired # {}

C3_Witness ==
    /\ Passed("validate")
    /\ "INDE 22" \notin Range(df.cols)
    /\ \E c \in PresentCandidates : \E i \in Rows :
          /\ sheet.rows[i][c].k = "str"
          /\ ~IsNumeric(sheet.rows[i][c].s)
          /\ df.rows[i][c] = NA

\* C4: the count of present values and the missing count that describe
\* reports for the primary indicator add up to the number of rows.
C4_PresentPlusMissing ==
    Passed("describe") => desc.count + desc.missing = Len(sheet.rows)

C4_Witness ==
    /\ Passed("describe")
    /\ desc.count > 0
    /\ desc.missing > 0
    /\ \E i \in Rows : sheet.rows[i][Indicator[script]].k = "str"

\* The column each script buckets in its overall rate table.
BucketColumn == [q1 |-> "Defas", q2 |-> "IDA", q3 |-> "IEG"]

\* Rows whose bucketed indicator is present.
NonMissing == {i \in Rows : df.rows[i][BucketColumn[script]].k = "num"}

Value(i) == df.rows[i][BucketColumn[script]].n

\* Rows of each bucket of the overall rate table, in the table's order.
BucketRows ==
    IF script = "q1"
    THEN << {i \in NonMissing : Value(i) = 0},
            {i \in NonMissing : Value(i) = -1},
            {i \in NonMissing : Value(i) <= -2},
            {i \in NonMissing : Value(i) <= -3} >>
    ELSE IF script = "q2"
    THEN << {i \in NonMissing : RatLe(Rat(Value(i), 1), cuts.p25)},
            {i \in NonMissing : RatLe(Rat(Value(i), 1), cuts.p10)} >>
    ELSE << {i \in NonMissing : RatLe(Rat(Value(i), 1), cuts.p25)},
            {i \in NonMissing : RatLe(cuts.p75, Rat(Value(i), 1))} >>

\* C5: in the overall rate table each bucket's count is the number of rows
\* with a present indicator in the bucket, and its percentage is that count
\* over the number of rows with a present indicator.
C5_OverallRateDenominator ==
    Passed("rates") =>
       /\ Len(rates) = Len(BucketRows)
       /\ \A j \in 1..Len(rates) :
             /\ rates[j].qtd = Cardinality(BucketRows[j])
             /\ rates[j].pct =
                   RoundPct(Cardinality(BucketRows[j]), Cardinality(NonMissing))

C5_Witness ==
    /\ Passed("rates")
    /\ script = "q3"
    /\ Cardinality(NonMissing) < Len(df.rows)
    /\ rates[1].qtd > 0
    /\ rates[1].pct # RoundPct(rates[1].qtd, Len(df.rows))

\* Rows of the phase group k.
PhaseRows(k) == {i \in Rows : df.rows[i]["Fase"] = k}

\* Rows in the bucket whose rate per phase the script reports (the third
\* bucket of Q1, the first of Q2 and Q3).
PhaseBucket ==
    IF script = "q1"
    THEN {i \in NonMissing : Value(i) <= -2}
    ELSE {i \in NonMissing : RatLe(Rat(Value(i), 1), cuts.p25)}

\* C6 (as claimed): in the rate table per phase, the rate of each phase is
\* the number of its rows in the bucket over the number of its rows whose
\* indicator is present.
C6_PhaseRateOverNonMissing ==
    Passed("rateFase") =>
       \A j \in 1..Len(rateByFase) :
          LET g == PhaseRows(rateByFase[j].key)
          IN rateByFase[j].pct =
                RoundPct(Cardinality(g \cap PhaseBucket),
                         Cardinality(g \cap NonMissing))

\* What the scripts compute instead: the rate over all the rows of the phase.
PhaseRateOverGroupRows ==
    Passed("rateFase") =>
       \A j \in 1..Len(rateByFase) :
          LET g == PhaseRows(rateByFase[j].key)
          IN rateByFase[j].pct =
                RoundPct(Cardinality(g \cap PhaseBucket), Cardinality(g))

\* The 0/1 bucket columns of tmp, per script.
FlagColumns ==
    [q1 |-> {"defas_moderada_mais"},
     q2 |-> {"baixo_desempenho_p25", "critico_p10"},
     q3 |-> {"baixo_ieg_p25", "alto_ieg_p75"}]

HasFlags ==
    IF script = "q1" THEN Passed("rateFase") ELSE Passed("rates")

\* C7 (as claimed): a row whose indicator is missing is in no bucket and
\* has no label: its 0/1 flags are 0 and its three-way engagement label of
\* Q3 is empty.
C7_MissingRowHasNoLabel ==
    /\ HasFlags =>
          \A i \in Rows \ NonMissing : \A f \in FlagColumns[script] :
             tmp.rows[i][f] = Num(0)
    /\ Passed("boxes") =>
          \A i \in Rows \ NonMissing : isna(grp.rows[i]["grupo_engajamento"])

\* The part of C7 that holds: the 0/1 flags of such a row are 0.
MissingRowHasNoFlag ==
    HasFlags =>
       \A i \in Rows \ NonMissing : \A f \in FlagColumns[script] :
          tmp.rows[i][f] = Num(0)

\* C8 (as claimed): no row is counted in two buckets of one rate table:
\* the four Defas groups of Q1 count each row with a present Defas at most
\* once, and no row of Q3 is both low and high.
C8_BucketsExclusive ==
    /\ (script = "q1" /\ Passed("rates")) =>
          rates[1].qtd + rates[2].qtd + rates[3].qtd + rates[4].qtd
             <= Cardinality(NonMissing)
    /\ (script = "q3" /\ Passed("rates")) =>
          \A i \in Rows :
             ~(tmp.rows[i]["baixo_ieg_p25"].n = 1
               /\ tmp.rows[i]["alto_ieg_p75"].n = 1)

\* The Q3 half of C8 alone (it fails when P25 = P75).
LowHighExclusive ==
    (script = "q3" /\ Passed("rates")) =>
       \A i \in Rows :
          ~(tmp.rows[i]["baixo_ieg_p25"].n = 1
            /\ tmp.rows[i]["alto_ieg_p75"].n = 1)

\* The grouped-aggregate tables that have been computed, with their keys.
GroupedTables ==
    (IF Passed("cohort") THEN {[key |-> "Ano ingresso", tbl |-> byCohort]}
     ELSE {})
    \cup (IF Passed("age") THEN {[key |-> "Idade 22", tbl |-> byAge]} ELSE {})
    \cup (IF Passed("fase") THEN {[key |-> "Fase", tbl |-> byFase]} ELSE {})
    \cup (IF Passed("pedra") THEN {[key |-> "Pedra 22", tbl |-> byPedra]}
          ELSE {})

\* Rows of the group k of key column c whose primary indicator is present.
Members(c, k) ==
    {i \in Rows : df.rows[i][c] = k /\ df.rows[i][Indicator[script]].k = "num"}

Ind(i) == df.rows[i][Indicator[script]].n

RECURSIVE SumOf(_)
SumOf(S) ==
    IF S = {} THEN 0
    ELSE LET i == CHOOSE x \in S : TRUE IN Ind(i) + SumOf(S \ {i})

\* m is the median of the indicator over the rows S: at most half of the
\* values lie on either side, and when no value equals m it is the midpoint
\* of the two values next to it.
IsMedianOf(m, S) ==
    IF S = {} THEN IsNaN(m)
    ELSE LET below == {i \in S : RatLt(Rat(Ind(i), 1), m)}
             above == {i \in S : RatLt(m, Rat(Ind(i), 1))}
         IN /\ ~IsNaN(m)
            /\ 2 * Cardinality(below) <= Cardinality(S)
            /\ 2 * Cardinality(above) <= Cardinality(S)
            /\ (below \cup above = S) =>
                  \E a \in below, b \in above :
                     /\ \A i \in below : Ind(i) <= Ind(a)
                     /\ \A i \in above : Ind(b) <= Ind(i)
                     /\ RatEq(m, Rat(Ind(a) + Ind(b), 2))

\* C9: a grouped-aggregate table has one row per distinct present value of
\* its key; the row's count is the number of rows with that key and a
\* present indicator, and its mean and median are those of these rows.
C9_GroupedAggregate ==
    \A g \in GroupedTables :
       LET keys == {df.rows[i][g.key] : i \in {j \in Rows :
                                                 notna(df.rows[j][g.key])}}
       IN /\ {g.tbl[j].key : j \in 1..Len(g.tbl)} = keys
          /\ Len(g.tbl) = Cardinality(keys)
          /\ \A j \in 1..Len(g.tbl) :
                LET S == Members(g.key, g.tbl[j].key)
                IN /\ g.tbl[j].count = Cardinality(S)
                   /\ RatSame(g.tbl[j].mean,
                              IF S = {} THEN NaN
                              ELSE Rat(SumOf(S), Cardinality(S)))
                   /\ IsMedianOf(g.tbl[j].median, S)

C9_Witness ==
    /\ Passed("pedra")
    /\ \E i \in Rows : isna(df.rows[i]["Pedra 22"])
    /\ Len(byPedra) >= 2
    /\ \E j \in 1..Len(byPedra) :
          /\ byPedra[j].count >= 2
          /\ byPedra[j].count
                < Cardinality({i \in Rows :
                                  df.rows[i]["Pedra 22"] = byPedra[j].key})

\* C10: the tables by cohort, age and phase are in ascending order of the
\* key; the table by tier is in ascending order of the mean, the tiers
\* without a mean last.
C10_GroupOrder ==
    /\ \A g \in {h \in GroupedTables : h.key # "Pedra 22"} :
          \A j \in 1..(Len(g.tbl) - 1) :
             /\ g.tbl[j].key.k = "num"
             /\ g.tbl[j + 1].key.k = "num"
             /\ g.tbl[j].key.n < g.tbl[j + 1].key.n
    /\ Passed("pedra") =>
          \A j \in 1..(Len(byPedra) - 1) :
             \/ IsNaN(byPedra[j + 1].mean)
             \/ RatLe(byPedra[j].mean, byPedra[j + 1].mean)

C10_Witness ==
    /\ Passed("pedra")
    /\ Passed("fase")
    /\ Len(byFase) >= 2
    /\ Len(byPedra) >= 3
    /\ \E j \in 1..(Len(byPedra) - 1) :
          /\ TextLess(byPedra[j + 1].key.s, byPedra[j].key.s)
          /\ RatLt(byPedra[j].mean, byPedra[j + 1].mean)

----------------------------------------------------------------------------
\* Association coefficients.

\* Rows of the table where both columns of pair j are present.
PairRows(j) ==
    {i \in Rows : /\ df.rows[i][pairs[j][1]].k = "num"
                  /\ df.rows[i][pairs[j][2]].k = "num"}

ColumnValues(c) == [i \in Rows |-> df.rows[i][c].n]

RECURSIVE SetSum(_, _)
SetSum(f, S) ==
    IF S = {} THEN 0
    ELSE LET i == CHOOSE x \in S : TRUE IN f[i] + SetSum(f, S \ {i})

\* The coefficient of X and Y over the rows S, from the differences of the
\* pairs of rows: covariance and variances as sums over i < j.
CoefOver(X, Y, S) ==
    LET P == {w \in S \X S : w[1] < w[2]}
        c == SetSum([w \in P |-> (X[w[1]] - X[w[2]]) * (Y[w[1]] - Y[w[2]])], P)
        vx == SetSum([w \in P |-> (X[w[1]] - X[w[2]]) * (X[w[1]] - X[w[2]])], P)
        vy == SetSum([w \in P |-> (Y[w[1]] - Y[w[2]]) * (Y[w[1]] - Y[w[2]])], P)
    IN IF vx = 0 \/ vy = 0 THEN NoCoef ELSE Coef(c, vx, vy)

\* Twice the rank of row i among the rows S: values below it count twice,
\* values equal to it (itself included) once, plus one.
RanksOver(X, S) ==
    [i \in Rows |-> 2 * Cardinality({j \in S : X[j] < X[i]})
                      + Cardinality({j \in S : X[j] = X[i]}) + 1]

\* C11: each association coefficient is taken over the rows where both
\* columns are present: with fewer than 5 such rows the Pearson and the
\* Spearman entry are both not-a-number and the run goes on; with 5 or more
\* each is the coefficient of exactly those rows.
C11_CorrOverCompleteRows ==
    Passed("corr") =>
       \A j \in 1..Len(pairs) :
          LET S == PairRows(j)
              X == ColumnValues(pairs[j][1])
              Y == ColumnValues(pairs[j][2])
          IN /\ Cardinality(S) < 5 =>
                   corr_tbl[j].pearson.nan /\ corr_tbl[j].spearman.nan
             /\ Cardinality(S) >= 5 =>
                   /\ corr_tbl[j].pearson = CoefOver(X, Y, S)
                   /\ corr_tbl[j].spearman
                         = CoefOver(RanksOver(X, S), RanksOver(Y, S), S)

C11_Witness ==
    /\ Passed("corr")
    /\ Cardinality(PairRows(1)) >= 5
    /\ ~corr_tbl[1].pearson.nan
    /\ ~corr_tbl[1].spearman.nan
    /\ corr_tbl[1].pearson # corr_tbl[1].spearman
    /\ Cardinality(PairRows(2)) \in 2..4
    /\ Cardinality(PairRows(2)) < Len(df.rows)
    /\ corr_tbl[2].pearson.nan

\* The same coefficient: c / sqrt(vx * vy) with equal numerators and equal
\* products of the variances, or both not-a-number.
SameCoef(p, q) ==
    /\ p.nan = q.nan
    /\ p.c = q.c
    /\ p.vx * p.vy = q.vx * q.vy

\* -1 <= c / sqrt(vx * vy) <= 1
InUnitRange(p) == p.c * p.c <= p.vx * p.vy

\* C12: the Pearson and the Spearman coefficient of a pair are those of the
\* pair taken in the other order, and each lies in [-1, 1] when it is
\* defined.
C12_CorrSymmetricBounded ==
    Passed("corr") =>
       \A j \in 1..Len(pairs) :
          /\ SameCoef(corr_tbl[j].pearson,
                      _corr_safe(tmp, pairs[j][2], pairs[j][1], "pearson"))
          /\ SameCoef(corr_tbl[j].spearman,
                      _corr_safe(tmp, pairs[j][2], pairs[j][1], "spearman"))
          /\ ~corr_tbl[j].pearson.nan => InUnitRange(corr_tbl[j].pearson)
          /\ ~corr_tbl[j].spearman.nan => InUnitRange(corr_tbl[j].spearman)

C12_Witness ==
    /\ Passed("corr")
    /\ \E j \in 1..Len(pairs) :
          /\ ~corr_tbl[j].pearson.nan
          /\ corr_tbl[j].pearson.c > 0
          /\ corr_tbl[j].pearson.vx # corr_tbl[j].pearson.vy
          /\ corr_tbl[j].pearson.c * corr_tbl[j].pearson.c
                < corr_tbl[j].pearson.vx * corr_tbl[j].pearson.vy
    /\ \E j \in 1..Len(pairs) :
          /\ ~corr_tbl[j].spearman.nan
          /\ corr_tbl[j].spearman.c < 0

----------------------------------------------------------------------------
\* The comparison of the low and the high engagement group (Q3).

\* Rows whose IEG is present and at most P25, or at least P75.
LowRows ==
    {i \in Rows : /\ df.rows[i]["IEG"].k = "num"
                  /\ 20 * df.rows[i]["IEG"].n * cuts.p25.d <= cuts.p25.n * 20}

HighRows ==
    {i \in Rows : /\ df.rows[i]["IEG"].k = "num"
                  /\ 20 * df.rows[i]["IEG"].n * cuts.p75.d >= cuts.p75.n * 20}

\* Mean of column c over the rows of S where it is present.
MeanOver(c, S) ==
    LET P == {i \in S : df.rows[i][c].k = "num"}
    IN IF P = {} THEN NaN
       ELSE Rat(SetSum(ColumnValues(c), P), Cardinality(P))

\* High-group mean minus low-group mean.
Delta(c) == RatSub(MeanOver(c, HighRows), MeanOver(c, LowRows))

\* C13: each delta of the comparison table is the high-group mean minus the
\* low-group mean of IDA or IPV, and the summary document carries that
\* difference with its sign, printed to four decimals.
C13_SignedDelta ==
    /\ Passed("comp") =>
          /\ RatSame(comp.delta_IDA, Delta("IDA"))
          /\ RatSame(comp.delta_IPV, Delta("IPV"))
    /\ (script = "q3" /\ Passed("readme")) =>
          /\ md.deltas = <<Format4(Delta("IDA")), Format4(Delta("IPV"))>>
          /\ md.deltas[1].neg
                = RatLt(MeanOver("IDA", HighRows), MeanOver("IDA", LowRows))
          /\ md.deltas[2].neg
                = RatLt(MeanOver("IPV", HighRows), MeanOver("IPV", LowRows))

C13_Witness ==
    /\ script = "q3"
    /\ Passed("readme")
    /\ md.deltas[2].neg
    /\ md.deltas[2].steps > 0
    /\ ~md.deltas[1].neg
    /\ md.deltas[1].steps > 0
    /\ comp.delta_IDA.n % (comp.delta_IDA.d * RoundStep) # 0
    /\ HighRows \cap LowRows = {}

----------------------------------------------------------------------------
\* The frequency tables.

\* Rows whose indicator is present.
PresentRows == {i \in Rows : df.rows[i][Indicator[script]].k = "num"}

\* p (in tenths of a percent) is num / den * 100 to one decimal.
IsPctOf(p, num, den) ==
    /\ p.d = 10
    /\ LET off == 1000 * num - p.n * den
       IN 2 * off <= den /\ 2 * off >= -den

\* C14: the frequency table of Q1 has one row per distinct present value of
\* IAN; the row's count is the number of rows with that value and its
\* percentage is the count over the number of rows of the table, missing
\* ones included; the counts add up to the number of present values.
C14_FrequencyPerValue ==
    (script = "q1" /\ Passed("freq")) =>
       /\ {freq[j].value : j \in 1..Len(freq)} = {Ind(i) : i \in PresentRows}
       /\ Len(freq) = Cardinality({Ind(i) : i \in PresentRows})
       /\ \A j \in 1..Len(freq) :
             /\ freq[j].qtd
                   = Cardinality({i \in PresentRows : Ind(i) = freq[j].value})
             /\ IsPctOf(freq[j].pct, freq[j].qtd, Len(df.rows))
       /\ SeqSum([j \in 1..Len(freq) |-> freq[j].qtd])
             = Cardinality(PresentRows)

C14_Witness ==
    /\ script = "q1"
    /\ Passed("freq")
    /\ Len(freq) >= 2
    /\ Cardinality(PresentRows) < Len(df.rows)
    /\ \E j \in 1..Len(freq) : freq[j].qtd >= 2

----------------------------------------------------------------------------
\* The files of a run.

\* Every file main() of the running script has a statement to write.
AllFiles ==
    UNION {Range(StageFiles[script][st]) : st \in DOMAIN StageFiles[script]}

scatter_files == Range(StageFiles["q3"]["scatter"])

\* Rows with IEG, IDA and IPV all present.
ScatRows ==
    {i \in Rows : /\ df.rows[i]["IEG"].k = "num"
                  /\ df.rows[i]["IDA"].k = "num"
                  /\ df.rows[i]["IPV"].k = "num"}

\* C15: every run that passes the two structural checks writes the same
\* set of files, whatever the data: each file the script can write is
\* written by every finished run.
C15_FixedFileSet == pc = "done" => Range(written) = AllFiles

\* What the runs do instead: a finished run of Q3 writes the two scatter
\* plots exactly when at least ScatterMin rows are complete, and every other
\* file always.
ScatterFilesWhenEnoughRows ==
    (script = "q3" /\ pc = "done") =>
       /\ AllFiles \ scatter_files \subseteq Range(written)
       /\ IF Cardinality(ScatRows) >= ScatterMin
          THEN scatter_files \subseteq Range(written)
          ELSE scatter_files \cap Range(written) = {}

\* Both kinds of finished run exist.
ScatterFilesWritten == pc = "done" /\ scatter_files \subseteq Range(written)

ScatterFilesNotWritten ==
    /\ pc = "done"
    /\ script = "q3"
    /\ scatter_files \cap Range(written) = {}

----------------------------------------------------------------------------
\* Degenerate indicators.

\* The distinct present values of the primary indicator.
DistinctValues == {Ind(i) : i \in PresentRows}

\* C16: when the primary indicator is all missing, or has a single distinct
\* value, the run raises nothing after the two structural checks.
C16_DegenerateRunCompletes ==
    (Passed("validate") /\ Cardinality(DistinctValues) <= 1) =>
       err.kind = "none"

\* What the runs do instead: Q1 never stops after the structural checks; Q2
\* and Q3 stop in the binned frequency table, and exactly for the
\* indicators with fewer than two distinct present values.
StopsInBinningWhenDegenerate ==
    /\ (Passed("validate") /\ err.kind # "none") =>
          /\ script \in {"q2", "q3"}
          /\ pc = "freq"
          /\ Cardinality(DistinctValues) <= 1
    /\ (Passed("freq") /\ script \in {"q2", "q3"}) =>
          Cardinality(DistinctValues) >= 2

\* Q1 finishes on an indicator that is all missing.
Q1FinishesAllMissing ==
    /\ script = "q1"
    /\ pc = "done"
    /\ Len(df.rows) > 0
    /\ PresentRows = {}

----------------------------------------------------------------------------
\* The loaded table.

\* The loader has finished: the file is read and its columns are coerced.
Loaded == pc \notin {"check", "read", "coerce"}

\* Table t agrees with the loaded table on every column of the loaded table.
AgreesWithLoaded(t) ==
    /\ Len(t.rows) = Len(df.rows)
    /\ \A c \in Range(df.cols) : Column(t, c) = Column(df, c)

\* C17: once the loader has coerced the table no stage changes or reloads
\* it; the bucket columns go to copies, which agree with the loaded table on
\* all of its columns.
C17_LoadedTableFixed ==
    [][Loaded =>
          /\ df' = df
          /\ tmp' # NoTable => AgreesWithLoaded(tmp)'
          /\ grp' # NoTable => AgreesWithLoaded(grp)']_vars

C17_Witness ==
    /\ script = "q3"
    /\ pc = "done"
    /\ df # sheet
    /\ Len(df.rows) >= 2
    /\ Len(tmp.cols) = Len(df.cols) + 2
    /\ Len(grp.cols) = Len(df.cols) + 3

----------------------------------------------------------------------------
\* Percentile cutoffs.

\* a <= b for two percentiles kept in twentieths.
PctLe(a, b) == a.d = 20 /\ b.d = 20 /\ a.n <= b.n

\* C18: with at least one present value the percentiles of the indicator
\* are in order, P10 <= P25 <= P50 <= P75 <= P90, in the descriptive table
\* and in the cutoffs the buckets use, so the low cutoff is at most the high
\* one.
C18_PercentilesInOrder ==
    (Passed("describe") /\ PresentRows # {}) =>
       /\ PctLe(desc.p10, desc.p25)
       /\ PctLe(desc.p25, desc.p50)
       /\ PctLe(desc.p50, desc.p75)
       /\ PctLe(desc.p75, desc.p90)
       /\ script \in {"q2", "q3"} =>
             /\ PctLe(cuts.p10, cuts.p25)
             /\ PctLe(cuts.p25, cuts.p50)
       /\ script = "q3" =>
             /\ PctLe(cuts.p50, cuts.p75)
             /\ PctLe(cuts.p25, cuts.p75)

C18_Witness ==
    /\ script = "q2"
    /\ Passed("describe")
    /\ desc.p10.n < desc.p25.n
    /\ desc.p25.n < desc.p50.n
    /\ desc.p50.n < desc.p75.n
    /\ desc.p75.n < desc.p90.n
    /\ desc.p10.n % 20 # 0
    /\ \E i \in Rows : /\ i > 1
                       /\ {i - 1, i} \subseteq PresentRows
                       /\ Ind(i) < Ind(i - 1)

----------------------------------------------------------------------------
\* The order of the stages, read off the files written so far.

\* The files of stage st are written.
Written(st) ==
    /\ st \in DOMAIN StageFiles[script]
    /\ Range(StageFiles[script][st]) \subseteq Range(written)

README == StageFiles[script]["readme"][1]

\* The summary document, once written, is the last file written.
ReadmeLast == Written("readme") => written[Len(written)] = README

\* C19: no grouped table is computed before the bucket classification and
\* its rate table, the association analysis comes after the last grouped
\* table, and the summary document is the last file written.
C19_ClassifierBeforeAggregates ==
    /\ \A st \in {"cohort", "age", "fase", "pedra"} :
          Written(st) => Written("rates")
    /\ Written("corr") =>
          \A st \in {"cohort", "age", "fase", "pedra"} : Written(st)
    /\ ReadmeLast

\* The stages that always write files, in the order main() runs them.
WritingOrder ==
    [q1 |-> <<"overview", "dist", "freq", "describe", "cohort", "age",
              "rates", "fase", "pedra", "rateFase", "readme">>,
     q2 |-> <<"overview", "dist", "freq", "describe", "cohort", "age",
              "pedra", "rates", "fase", "rateFase", "readme">>,
     q3 |-> <<"overview", "dist", "freq", "describe", "cohort", "age",
              "rates", "corr", "comp", "boxes", "fase", "pedra", "rateFase",
              "readme">>]

\* C19, as the scripts run: nothing is written before the table is loaded;
\* the distribution and the descriptive table come first, then the tables
\* by cohort and by age (in Q2 also the one by tier), then the
\* classification and its rate table, then in Q3 the association analysis
\* and the comparison of the groups, then the tables by phase (in Q1 and Q3
\* also by tier) and the rate by phase; the summary document is the last
\* file written.
C19_AggregatesAroundClassifier ==
    /\ written # <<>> => df # NoTable
    /\ \A k \in 1..(Len(WritingOrder[script]) - 1) :
          Written(WritingOrder[script][k + 1]) =>
             Written(WritingOrder[script][k])
    /\ ReadmeLast

C19_Witness ==
    /\ script = "q3"
    /\ Written("cohort")
    /\ Written("age")
    /\ Written("corr")
    /\ ~Written("fase")
    /\ ~Written("pedra")

----------------------------------------------------------------------------
\* The binned frequency tables of Q2 and Q3.

\* Row i falls in bin j of the stored table: above its lower edge and at
\* most its upper edge, or on the lower edge of the first bin.  (20 * v
\* against an edge n / d in twentieths.)
FallsIn(i, j) ==
    LET v == Ind(i)
        lo == freq[j].lo
        hi == freq[j].hi
    IN \/ lo.n * 20 < 20 * v * lo.d /\ 20 * v * hi.d <= hi.n * 20
       \/ j = 1 /\ 20 * v * lo.d = lo.n * 20

BinsOf(i) == {j \in 1..Len(freq) : FallsIn(i, j)}

\* C20: in the binned frequency tables of Q2 and Q3 every present value of
\* the indicator falls in exactly one bin, so the counts of the bins add up
\* to the number of present values.
C20_BinsCoverPresent ==
    (script \in {"q2", "q3"} /\ Passed("freq")) =>
       /\ \A i \in PresentRows : Cardinality(BinsOf(i)) = 1
       /\ SeqSum([j \in 1..Len(freq) |-> freq[j].qtd])
             = Cardinality(PresentRows)

\* What the tables do instead: no value falls in two bins and each count is
\* the number of rows in the bin, but a value beyond the rounded outer
\* edges falls in none.
BinsCountRowsInside ==
    (script \in {"q2", "q3"} /\ Passed("freq")) =>
       /\ \A i \in PresentRows : Cardinality(BinsOf(i)) <= 1
       /\ \A j \in 1..Len(freq) :
             freq[j].qtd = Cardinality({i \in PresentRows : FallsIn(i, j)})
       /\ \A i \in PresentRows :
             BinsOf(i) = {} =>
                \/ 20 * Ind(i) * freq[Len(freq)].hi.d
                      > freq[Len(freq)].hi.n * 20
                \/ 20 * Ind(i) * freq[1].lo.d < freq[1].lo.n * 20

\* A table whose largest value lies above the last edge.
ValueAboveLastEdge ==
    /\ script \in {"q2", "q3"}
    /\ Passed("freq")
    /\ \E i \in PresentRows :
          20 * Ind(i) * freq[Len(freq)].hi.d > freq[Len(freq)].hi.n * 20

====
